---------------------------- MODULE Spec2Model ----------------------------
(* A model of the node coordination layer of bdns                          *)
(* (src/internal/network/node.go): the gossip dispatch loop, the direct    *)
(* "/dns-response" stream callback, the local broadcast entry points and   *)
(* the epoch-randomness table with its lock.  Every goroutine is a task    *)
(* with a program counter; one action is one step of one task.             *)
EXTENDS Integers, Sequences, FiniteSets, Bags, TLC

\* ------------------------------------------------------------ bounds
\* Events from outside the tasks over the whole run: local API calls,
\* envelopes and streams from peers outside the model, a channel's closing.
MaxEvents == 2
\* Epochs are 1..MaxEpoch.
MaxEpoch == 2
\* SecretValue and RandomValue range over 1..MaxVal (0 is Go's zero value).
MaxVal == 2

\* ------------------------------------------------------------ identities
Nodes == {"A", "B"}
\* A peer of the network that is not one of the modelled nodes.
Outsider == "X"
Peers == Nodes \cup {Outsider}
Roles == {"loop", "api", "dm"}
\* The nodes whose local API is called.
Callers == {"A"}

\* KeyPair.PublicKey of every peer, as a byte string.
PublicKey == [p \in Peers |->
                CASE p = "A" -> <<10>>
                  [] p = "B" -> <<171>>
                  [] OTHER   -> <<255>>]

HexDigits == <<"0", "1", "2", "3", "4", "5", "6", "7",
               "8", "9", "a", "b", "c", "d", "e", "f">>

\* encoding/hex.EncodeToString: two lower-case digits per byte, high nibble
\* first.  A string is the sequence of its characters.
HexEncodeToString(b) ==
    [i \in 1..(2 * Len(b)) |->
        LET byte == b[(i + 1) \div 2]
        IN  HexDigits[(IF i % 2 = 1 THEN byte \div 16 ELSE byte % 16) + 1]]

SelfID(n) == HexEncodeToString(PublicKey[n])

Range(s) == {s[i] : i \in 1..Len(s)}

\* ------------------------------------------------------------ payloads
Epochs == 1..MaxEpoch
Vals == 1..MaxVal

\* consensus.SecretValues and its zero value.
SecretValues(s, r) == [SecretValue |-> s, RandomValue |-> r]
ZeroSecretValues == SecretValues(0, 0)
ValuePairs == {SecretValues(s, r) : s \in Vals, r \in Vals}

\* RandomNumberMsg and its zero value (Sender nil is the empty byte string).
RandomNumberMsg(e, s, r, snd) ==
    [Epoch |-> e, SecretValue |-> s, RandomValue |-> r, Sender |-> snd]
ZeroRandomNumberMsg == RandomNumberMsg(0, 0, 0, <<>>)

Domains == {"example.bdns", "absent.bdns"}

\* BDNSRequest and its zero value.
BDNSRequest(d) == [DomainName |-> d]
ZeroBDNSRequest == BDNSRequest("")

\* blockchain.Transaction, reduced to the fields node.go reads, and its zero
\* value.
Transaction(tid, d, ip) ==
    [TID |-> tid, Timestamp |-> tid, DomainName |-> d, IP |-> ip,
     TTL |-> 3600, OwnerKey |-> PublicKey["A"], Signature |-> <<tid>>]
ZeroTransaction ==
    [TID |-> 0, Timestamp |-> 0, DomainName |-> "", IP |-> "",
     TTL |-> 0, OwnerKey |-> <<>>, Signature |-> <<>>]
Tx1 == Transaction(1, "example.bdns", "10.0.0.1")
Tx2 == Transaction(2, "other.bdns", "10.0.0.2")

\* blockchain.Block, reduced to an index, and its zero value.
Block(i) == [Index |-> i]
ZeroBlock == Block(0)

\* BDNSResponse and its zero value.
BDNSResponse(tx) ==
    [Timestamp |-> tx.Timestamp, DomainName |-> tx.DomainName, IP |-> tx.IP,
     TTL |-> tx.TTL, OwnerKey |-> tx.OwnerKey, Signature |-> tx.Signature]
ZeroBDNSResponse == BDNSResponse(ZeroTransaction)

\* ------------------------------------------------------------ encoding
\* json.Marshal of a payload: bytes that decode to it.  Garbage stands for
\* bytes that are not the JSON of the payload type.
Marshal(v) == [ok |-> TRUE, v |-> v]
Garbage == [ok |-> FALSE, v |-> <<>>]

\* json.Unmarshal(content, &target) with target at its zero value: the error
\* and what target holds afterwards.
Unmarshal(content, zero) ==
    IF content.ok THEN [err |-> FALSE, v |-> content.v]
                  ELSE [err |-> TRUE, v |-> zero]

\* GossipMessage (the envelope) and its message types.
MsgTypes == {"DNSRequest", "DNSResponse", "MsgTransaction", "MsgBlock",
             "MsgRandomNumber"}
GossipMessage(type, content, sender) ==
    [Type |-> type, Content |-> content, Sender |-> sender]
NoMsg == [Type |-> "None"]
NoArgs == [h |-> "None"]


\* ------------------------------------------------------------ Go maps
\* A Go map is a function on the keys it holds; the outer table also records
\* whether it is the nil map.
EmptyMap == [k \in {} |-> ZeroSecretValues]
MapPut(m, k, v) == [x \in (DOMAIN m) \cup {k} |-> IF x = k THEN v ELSE m[x]]
\* make(map[int64]map[string]consensus.SecretValues)
MakeOuter == [isNil |-> FALSE, m |-> EmptyMap]
\* n.EpochRandoms[epoch] == nil
InnerIsNil(t, epoch) == t.isNil \/ epoch \notin DOMAIN t.m
\* The entry of (epoch, sender), or the zero value where there is none.
Lookup(t, epoch, sender) ==
    IF ~InnerIsNil(t, epoch) /\ sender \in DOMAIN t.m[epoch]
    THEN t.m[epoch][sender] ELSE ZeroSecretValues
HasEntry(t, epoch, sender) ==
    ~InnerIsNil(t, epoch) /\ sender \in DOMAIN t.m[epoch]

\* ------------------------------------------------------------ collaborators
\* IndexManager of every node: the records its ledger index holds.
IndexManager == [n \in Nodes |->
                   IF n = "B" THEN [d \in {"example.bdns"} |-> Tx1]
                   ELSE [d \in {} |-> Tx1]]
NilTx == [nil |-> TRUE]
\* IndexManager.GetIP(domain): the stored record, or nil.
GetIP(n, d) == IF d \in DOMAIN IndexManager[n] THEN IndexManager[n][d] ELSE NilTx

\* The registry key lists a node may hold: none as NewNode leaves the field,
\* or a list set afterwards, with or without the node's own key.
RegistryChoices == {<<>>, <<PublicKey["A"], PublicKey["B"]>>, <<PublicKey["B"]>>}

\* consensus.CommitmentPhase(keys): the secret values it may return, one
\* pair for every key of the list, keyed by the key's hex string.
CommitmentPhase(keys) ==
    [{HexEncodeToString(k) : k \in Range(keys)} -> ValuePairs]

\* secretValues[key]: Go's map read, the zero value for a missing key.
MapGet(m, k) == IF k \in DOMAIN m THEN m[k] ELSE ZeroSecretValues

\* ------------------------------------------------------------ state
VARIABLES
    pc,               \* pc[n][r]: where task r of node n stands
    frame,            \* frame[n][r]: the locals of that task
    MsgChan,          \* P2PNetwork.MsgChan of every node
    chanClosed,       \* whether that channel has been closed
    outbox,           \* direct messages sent and not yet accepted
    stream,           \* the stream of the last "/dns-response" callback
    surfaced,         \* what DNSResponseHandler printed, per node
    EpochRandoms,     \* Node.EpochRandoms
    RandomMutex,      \* Node.RandomMutex: its holder
    TxMutex,          \* Node.TxMutex: its holder
    RandomNumber,     \* Node.RandomNumber
    TransactionPool,  \* Node.TransactionPool
    Ledger,           \* what the ledger was handed
    RegistryKeys,     \* Node.RegistryKeys
    budget,           \* outside events left
    writes            \* history: the handler writes of every node, in order

vars == <<pc, frame, MsgChan, chanClosed, outbox, stream, surfaced,
          EpochRandoms, RandomMutex, TxMutex, RandomNumber, TransactionPool,
          Ledger, RegistryKeys, budget, writes>>

Free == "free"
IdleFrame == [op |-> "None", msg |-> NoMsg, args |-> NoArgs]
NoStream == [bytes |-> Garbage, from |-> Outsider, open |-> FALSE,
             wrote |-> FALSE]

\* NewNode: the maps are made, the locks are free, the three goroutines are
\* started.  The registry is unset, or set with or without the caller's key.
Init ==
    /\ pc = [n \in Nodes |-> [r \in Roles |-> IF r = "loop" THEN "recv" ELSE "idle"]]
    /\ frame = [n \in Nodes |-> [r \in Roles |-> IdleFrame]]
    /\ MsgChan = [n \in Nodes |-> <<>>]
    /\ chanClosed = [n \in Nodes |-> FALSE]
    /\ outbox = EmptyBag
    /\ stream = [n \in Nodes |-> NoStream]
    /\ surfaced = [n \in Nodes |-> <<>>]
    /\ EpochRandoms = [n \in Nodes |-> MakeOuter]
    /\ RandomMutex = [n \in Nodes |-> Free]
    /\ TxMutex = [n \in Nodes |-> Free]
    /\ RandomNumber = [n \in Nodes |-> 0]
    /\ TransactionPool = [n \in Nodes |-> <<>>]
    /\ Ledger = [n \in Nodes |-> [txs |-> <<>>, blocks |-> <<>>]]
    /\ \E keys \in RegistryChoices : RegistryKeys = [n \in Nodes |-> keys]
    /\ budget = MaxEvents
    /\ writes = [n \in Nodes |-> <<>>]

Goto(n, r, p, f) ==
    /\ pc' = [pc EXCEPT ![n][r] = p]
    /\ frame' = [frame EXCEPT ![n][r] = f]

\* sync.Mutex: Lock proceeds only when nobody holds the mutex.
MutexFree(mu) == mu = Free

\* ------------------------------------------------------------ transport
\* P2PNetwork.BroadcastMessage(type, payload) and the delivery pump
\* (ListenForGossip): the envelope reaches the channel of every subscriber
\* of the topic, the publisher included, unless that channel is closed.
Publish(e) ==
    [n \in Nodes |-> IF chanClosed[n] THEN MsgChan[n] ELSE Append(MsgChan[n], e)]

\* P2PNetwork.DirectMessage(type, payload, to): one stream to that peer.
Direct(n, type, payload, to) ==
    outbox (+) SetToBag({[to |-> to, from |-> n,
                          bytes |-> Marshal(GossipMessage(type, Marshal(payload), n))]})

\* What peers outside the model may publish on the topic: randomness
\* contributions of the outsider, any payload type with bytes that do not
\* decode, a valid transaction, block and queries, and an envelope of a type
\* the dispatch loop has no case for.
RemoteEnvelopes ==
    {GossipMessage("MsgRandomNumber",
                   Marshal(RandomNumberMsg(e, p.SecretValue, p.RandomValue,
                                           PublicKey[Outsider])),
                   Outsider) : e \in Epochs, p \in ValuePairs}
    \cup {GossipMessage(t, Garbage, Outsider) :
            t \in {"MsgRandomNumber", "MsgTransaction", "MsgBlock", "DNSRequest"}}
    \cup {GossipMessage("MsgTransaction", Marshal(Tx2), Outsider),
          GossipMessage("MsgBlock", Marshal(Block(1)), Outsider),
          GossipMessage("DNSResponse", Marshal(BDNSResponse(Tx2)), Outsider)}
    \cup {GossipMessage("DNSRequest", Marshal(BDNSRequest(d)), Outsider) : d \in Domains}

\* What peers outside the model may write on a "/dns-response" stream.
RemoteStreams ==
    {Garbage,
     Marshal(GossipMessage("DNSResponse", Marshal(BDNSResponse(Tx2)), Outsider)),
     Marshal(GossipMessage("DNSResponse", Garbage, Outsider)),
     Marshal(GossipMessage("DNSRequest", Marshal(BDNSRequest("example.bdns")), Outsider))}

\* A peer outside the model publishes an envelope on the topic.
RemotePublish ==
    /\ budget > 0
    /\ \E e \in RemoteEnvelopes : MsgChan' = Publish(e)
    /\ budget' = budget - 1
    /\ UNCHANGED <<pc, frame, chanClosed, outbox, stream, surfaced,
                   EpochRandoms, RandomMutex, TxMutex, RandomNumber,
                   TransactionPool, Ledger, RegistryKeys, writes>>

\* Transport shutdown: the inbound channel is closed.
TransportClose(n) ==
    /\ budget > 0
    /\ ~chanClosed[n]
    /\ chanClosed' = [chanClosed EXCEPT ![n] = TRUE]
    /\ budget' = budget - 1
    /\ UNCHANGED <<pc, frame, MsgChan, outbox, stream, surfaced,
                   EpochRandoms, RandomMutex, TxMutex, RandomNumber,
                   TransactionPool, Ledger, RegistryKeys, writes>>

\* ------------------------------------------------------------ HandleGossip
RNHArgs(epoch, sender, secretValue, randomValue) ==
    [epoch |-> epoch, sender |-> sender, secretValue |-> secretValue,
     randomValue |-> randomValue]

\* A switch that ends the loop on an envelope that fails to decode.
DispatchStopsOnError(msg) ==
    IF ~msg.Content.ok THEN [pc |-> "exited", args |-> NoArgs]
    ELSE CASE msg.Type = "DNSRequest" ->
                [pc |-> "dns_lock",
                 args |-> [req |-> msg.Content.v, reqSender |-> msg.Sender]]
           [] msg.Type = "MsgTransaction" ->
                [pc |-> "at_lock", args |-> [tx |-> msg.Content.v]]
           [] msg.Type = "MsgBlock" ->
                [pc |-> "ab_add", args |-> [block |-> msg.Content.v]]
           [] msg.Type = "MsgRandomNumber" ->
                [pc |-> "rnh_lock",
                 args |-> RNHArgs(msg.Content.v.Epoch,
                                  HexEncodeToString(msg.Content.v.Sender),
                                  msg.Content.v.SecretValue,
                                  msg.Content.v.RandomValue)]
           [] OTHER -> [pc |-> "recv", args |-> NoArgs]

\* The switch of HandleGossip on one envelope: the handler it enters and the
\* arguments it passes, or "recv" where the envelope is passed over.
Dispatch(msg) ==
    CASE msg.Type = "DNSRequest" ->
           LET u == Unmarshal(msg.Content, ZeroBDNSRequest)
           IN  [pc |-> "dns_lock", args |-> [req |-> u.v, reqSender |-> msg.Sender]]
      [] msg.Type = "MsgTransaction" ->
           LET u == Unmarshal(msg.Content, ZeroTransaction)
           IN  [pc |-> "at_lock", args |-> [tx |-> u.v]]
      [] msg.Type = "MsgBlock" ->
           LET u == Unmarshal(msg.Content, ZeroBlock)
           IN  [pc |-> "ab_add", args |-> [block |-> u.v]]
      [] msg.Type = "MsgRandomNumber" ->
           LET u == Unmarshal(msg.Content, ZeroRandomNumberMsg)
           IN  IF u.err THEN [pc |-> "recv", args |-> NoArgs]
               ELSE [pc |-> "rnh_lock",
                     args |-> RNHArgs(u.v.Epoch, HexEncodeToString(u.v.Sender),
                                      u.v.SecretValue, u.v.RandomValue)]
      [] OTHER -> [pc |-> "recv", args |-> NoArgs]

\* A loop that takes the newest envelope of the channel first.
HandleGossipRecvNewest(n) ==
    /\ pc[n]["loop"] = "recv"
    /\ MsgChan[n] # <<>>
    /\ LET msg == MsgChan[n][Len(MsgChan[n])]
           d == Dispatch(msg)
       IN  Goto(n, "loop", d.pc,
                IF d.pc = "recv" THEN IdleFrame
                ELSE [op |-> "HandleGossip", msg |-> msg, args |-> d.args])
    /\ MsgChan' = [MsgChan EXCEPT ![n] = SubSeq(@, 1, Len(@) - 1)]
    /\ UNCHANGED <<chanClosed, outbox, stream, surfaced, EpochRandoms,
                   RandomMutex, TxMutex, RandomNumber, TransactionPool,
                   Ledger, RegistryKeys, budget, writes>>

\* for msg := range n.P2PNetwork.MsgChan: receive the next envelope and
\* switch on its type.
HandleGossipRecv(n) ==
    /\ pc[n]["loop"] = "recv"
    /\ MsgChan[n] # <<>>
    /\ LET msg == Head(MsgChan[n])
           d == Dispatch(msg)
       IN  Goto(n, "loop", d.pc,
                IF d.pc = "recv" THEN IdleFrame
                ELSE [op |-> "HandleGossip", msg |-> msg, args |-> d.args])
    /\ MsgChan' = [MsgChan EXCEPT ![n] = Tail(@)]
    /\ UNCHANGED <<chanClosed, outbox, stream, surfaced, EpochRandoms,
                   RandomMutex, TxMutex, RandomNumber, TransactionPool,
                   Ledger, RegistryKeys, budget, writes>>

\* A loop that ends as soon as it finds its channel empty.
HandleGossipExitWhenEmpty(n) ==
    /\ pc[n]["loop"] = "recv"
    /\ MsgChan[n] = <<>>
    /\ Goto(n, "loop", "exited", IdleFrame)
    /\ UNCHANGED <<MsgChan, chanClosed, outbox, stream, surfaced,
                   EpochRandoms, RandomMutex, TxMutex, RandomNumber,
                   TransactionPool, Ledger, RegistryKeys, budget,
                   writes>>

\* The range loop ends once the channel is closed and drained.
HandleGossipExit(n) ==
    /\ pc[n]["loop"] = "recv"
    /\ MsgChan[n] = <<>>
    /\ chanClosed[n]
    /\ Goto(n, "loop", "exited", IdleFrame)
    /\ UNCHANGED <<MsgChan, chanClosed, outbox, stream, surfaced,
                   EpochRandoms, RandomMutex, TxMutex, RandomNumber,
                   TransactionPool, Ledger, RegistryKeys, budget,
                   writes>>

\* A BroadcastRandomNumber that broadcasts first and applies locally after.
BroadcastRandomNumberSendsFirst(stage) ==
    CASE stage = "start"   -> "brn_send"
      [] stage = "sent"    -> "rnh_lock"
      [] stage = "applied" -> "idle"

\* The control flow of BroadcastRandomNumber: apply locally, then broadcast.
BroadcastRandomNumberFlow(stage) ==
    CASE stage = "start"   -> "rnh_lock"
      [] stage = "applied" -> "brn_send"
      [] stage = "sent"    -> "idle"

\* A BroadcastTransaction that broadcasts first and applies locally after.
BroadcastTransactionSendsFirst(stage) ==
    CASE stage = "start"   -> "bt_send"
      [] stage = "sent"    -> "at_lock"
      [] stage = "applied" -> "idle"

\* The control flow of BroadcastTransaction: apply locally, then broadcast.
BroadcastTransactionFlow(stage) ==
    CASE stage = "start"   -> "at_lock"
      [] stage = "applied" -> "bt_send"
      [] stage = "sent"    -> "idle"

\* Where a handler returns to: the loop receives the next envelope, a local
\* broadcast goes on with its next statement.
Return(n, r) ==
    LET p == CASE r = "loop" -> "recv"
               [] frame[n][r].op = "BroadcastRandomNumber" ->
                    BroadcastRandomNumberFlow("applied")
               [] OTHER -> BroadcastTransactionFlow("applied")
    IN  Goto(n, r, p, IF p \in {"recv", "idle"} THEN IdleFrame ELSE frame[n][r])

\* ------------------------------------------------------------ RandomNumberHandler
\* A handler that makes the inner map of every epoch but the one asked for.
PutInnerDropsOthers(t, epoch) == [t EXCEPT !.m = [e \in {epoch} |-> EmptyMap]]

\* n.EpochRandoms[epoch] = make(map[string]consensus.SecretValues)
PutInner(t, epoch) == [t EXCEPT !.m = MapPut(t.m, epoch, EmptyMap)]

\* A handler that keeps the first value written for (epoch, sender).
StoreEntryIfAbsent(t, epoch, sender, secretValue, randomValue) ==
    IF sender \in DOMAIN t.m[epoch] THEN t
    ELSE [t EXCEPT !.m = MapPut(t.m, epoch,
                                MapPut(t.m[epoch], sender,
                                       SecretValues(secretValue, randomValue)))]

\* n.EpochRandoms[epoch][sender] = consensus.SecretValues{...}
StoreEntry(t, epoch, sender, secretValue, randomValue) ==
    [t EXCEPT !.m = MapPut(t.m, epoch,
                           MapPut(t.m[epoch], sender,
                                  SecretValues(secretValue, randomValue)))]

\* A handler that makes the inner map on every call.
NeedsInnerAlways(t, epoch) == TRUE

\* if n.EpochRandoms[epoch] == nil
NeedsInner(t, epoch) == InnerIsNil(t, epoch)

\* A handler that does not wait for the lock.
RandomLockIgnored(n) == TRUE

\* n.RandomMutex.Lock() lets the handler in.
RandomLockFree(n) == MutexFree(RandomMutex[n])

\* The lock is taken; then the two nil tests: a nil outer map is made, and
\* the inner map of the epoch is read.
RandomNumberHandlerLock(n, r) ==
    /\ pc[n][r] = "rnh_lock"
    /\ RandomLockFree(n)
    /\ RandomMutex' = [RandomMutex EXCEPT ![n] = r]
    /\ LET t == IF EpochRandoms[n].isNil THEN MakeOuter ELSE EpochRandoms[n]
       IN  /\ EpochRandoms' = [EpochRandoms EXCEPT ![n] = t]
           /\ Goto(n, r, IF NeedsInner(t, frame[n][r].args.epoch)
                         THEN "rnh_make" ELSE "rnh_write", frame[n][r])
    /\ UNCHANGED <<MsgChan, chanClosed, outbox, stream, surfaced, TxMutex,
                   RandomNumber, TransactionPool, Ledger, RegistryKeys,
                   budget, writes>>

\* The inner map of the epoch is made.
RandomNumberHandlerMake(n, r) ==
    /\ pc[n][r] = "rnh_make"
    /\ EpochRandoms' = [EpochRandoms EXCEPT
                          ![n] = PutInner(@, frame[n][r].args.epoch)]
    /\ Goto(n, r, "rnh_write", frame[n][r])
    /\ UNCHANGED <<MsgChan, chanClosed, outbox, stream, surfaced,
                   RandomMutex, TxMutex, RandomNumber, TransactionPool,
                   Ledger, RegistryKeys, budget, writes>>

\* The entry of (epoch, sender) is assigned; the deferred Unlock runs and the
\* handler returns.
RandomNumberHandlerWrite(n, r) ==
    /\ pc[n][r] = "rnh_write"
    /\ LET a == frame[n][r].args
       IN  /\ EpochRandoms' = [EpochRandoms EXCEPT
                                 ![n] = StoreEntry(@, a.epoch, a.sender,
                                                   a.secretValue, a.randomValue)]
           /\ writes' = [writes EXCEPT ![n] = Append(@, a)]
    /\ RandomMutex' = [RandomMutex EXCEPT ![n] = Free]
    /\ Return(n, r)
    /\ UNCHANGED <<MsgChan, chanClosed, outbox, stream, surfaced, TxMutex,
                   RandomNumber, TransactionPool, Ledger, RegistryKeys,
                   budget>>

\* ------------------------------------------------------------ DNSRequestHandler
\* A handler that answers a name it has no record of with an empty record.
DNSReplyNegative(n, req) ==
    LET tx == GetIP(n, req.DomainName)
    IN  IF tx # NilTx THEN [send |-> TRUE, res |-> BDNSResponse(tx)]
        ELSE [send |-> TRUE,
              res |-> [ZeroBDNSResponse EXCEPT !.DomainName = req.DomainName]]

\* A handler that answers with a record whose TTL it does not copy.
DNSReplyWithoutTTL(n, req) ==
    LET tx == GetIP(n, req.DomainName)
    IN  IF tx # NilTx THEN [send |-> TRUE, res |-> [BDNSResponse(tx) EXCEPT !.TTL = 0]]
        ELSE [send |-> FALSE, res |-> ZeroBDNSResponse]

\* The body of DNSRequestHandler under the lock: the index is read, and a
\* record that is found is copied into the response to send.
DNSReply(n, req) ==
    LET tx == GetIP(n, req.DomainName)
    IN  IF tx # NilTx THEN [send |-> TRUE, res |-> BDNSResponse(tx)]
        ELSE [send |-> FALSE, res |-> ZeroBDNSResponse]

\* n.TxMutex.Lock(); tx := n.IndexManager.GetIP(req.DomainName); if tx != nil
DNSRequestHandlerLock(n) ==
    /\ pc[n]["loop"] = "dns_lock"
    /\ MutexFree(TxMutex[n])
    /\ TxMutex' = [TxMutex EXCEPT ![n] = "loop"]
    /\ LET f == frame[n]["loop"]
           reply == DNSReply(n, f.args.req)
       IN  IF reply.send
           THEN Goto(n, "loop", "dns_send",
                     [f EXCEPT !.args = [req |-> f.args.req,
                                         reqSender |-> f.args.reqSender,
                                         res |-> reply.res]])
           ELSE Goto(n, "loop", "dns_unlock", f)
    /\ UNCHANGED <<MsgChan, chanClosed, outbox, stream, surfaced,
                   EpochRandoms, RandomMutex, RandomNumber,
                   TransactionPool, Ledger, RegistryKeys, budget,
                   writes>>

\* n.P2PNetwork.DirectMessage(DNSResponse, res, reqSender)
DNSRequestHandlerSend(n) ==
    /\ pc[n]["loop"] = "dns_send"
    /\ LET a == frame[n]["loop"].args
       IN  outbox' = Direct(n, "DNSResponse", a.res, a.reqSender)
    /\ Goto(n, "loop", "dns_unlock", frame[n]["loop"])
    /\ UNCHANGED <<MsgChan, chanClosed, stream, surfaced, EpochRandoms,
                   RandomMutex, TxMutex, RandomNumber, TransactionPool,
                   Ledger, RegistryKeys, budget, writes>>

\* defer n.TxMutex.Unlock(), and the return.
DNSRequestHandlerUnlock(n) ==
    /\ pc[n]["loop"] = "dns_unlock"
    /\ TxMutex' = [TxMutex EXCEPT ![n] = Free]
    /\ Return(n, "loop")
    /\ UNCHANGED <<MsgChan, chanClosed, outbox, stream, surfaced,
                   EpochRandoms, RandomMutex, RandomNumber,
                   TransactionPool, Ledger, RegistryKeys, budget,
                   writes>>

\* ------------------------------------------------------------ ledger ingestion
\* AddTransaction(tx): the pool's lock is taken.
AddTransactionLock(n, r) ==
    /\ pc[n][r] = "at_lock"
    /\ MutexFree(TxMutex[n])
    /\ TxMutex' = [TxMutex EXCEPT ![n] = r]
    /\ Goto(n, r, "at_insert", frame[n][r])
    /\ UNCHANGED <<MsgChan, chanClosed, outbox, stream, surfaced,
                   EpochRandoms, RandomMutex, RandomNumber,
                   TransactionPool, Ledger, RegistryKeys, budget,
                   writes>>

\* AddTransaction(tx): tx enters the pool under the next local index and is
\* handed to the ledger; the lock is released.
AddTransactionInsert(n, r) ==
    /\ pc[n][r] = "at_insert"
    /\ TransactionPool' = [TransactionPool EXCEPT
                             ![n] = Append(@, frame[n][r].args.tx)]
    /\ Ledger' = [Ledger EXCEPT ![n].txs = Append(@, frame[n][r].args.tx)]
    /\ TxMutex' = [TxMutex EXCEPT ![n] = Free]
    /\ Return(n, r)
    /\ UNCHANGED <<MsgChan, chanClosed, outbox, stream, surfaced,
                   EpochRandoms, RandomMutex, RandomNumber,
                   RegistryKeys, budget, writes>>

\* AddBlock(block): the block is handed to the ledger.
AddBlock(n) ==
    /\ pc[n]["loop"] = "ab_add"
    /\ Ledger' = [Ledger EXCEPT
                    ![n].blocks = Append(@, frame[n]["loop"].args.block)]
    /\ Return(n, "loop")
    /\ UNCHANGED <<MsgChan, chanClosed, outbox, stream, surfaced,
                   EpochRandoms, RandomMutex, TxMutex, RandomNumber,
                   TransactionPool, RegistryKeys, budget, writes>>

\* ------------------------------------------------------------ local calls
\* A message built with the two values in each other's place.
BuildRandomNumberMsgSwapped(epoch, nodeSecretValues, publicKey) ==
    RandomNumberMsg(epoch, nodeSecretValues.RandomValue,
                    nodeSecretValues.SecretValue, publicKey)

\* msg := RandomNumberMsg{Epoch, SecretValue, RandomValue, Sender}
BuildRandomNumberMsg(epoch, nodeSecretValues, publicKey) ==
    RandomNumberMsg(epoch, nodeSecretValues.SecretValue,
                    nodeSecretValues.RandomValue, publicKey)

\* BroadcastRandomNumber(epoch, registryKeys) up to the handler call: the
\* commitment phase runs over n.RegistryKeys (the registryKeys argument is
\* not read), the node's own pair is looked up and the message is built.
BroadcastRandomNumberCall(n) ==
    /\ pc[n]["api"] = "idle"
    /\ budget > 0
    /\ \E epoch \in Epochs, registryKeys \in RegistryChoices,
          secretValues \in CommitmentPhase(RegistryKeys[n]) :
         LET nodeSecretValues == MapGet(secretValues, SelfID(n))
         IN  Goto(n, "api", BroadcastRandomNumberFlow("start"),
                  [op |-> "BroadcastRandomNumber",
                   msg |-> BuildRandomNumberMsg(epoch, nodeSecretValues,
                                                PublicKey[n]),
                   args |-> RNHArgs(epoch, SelfID(n),
                                    nodeSecretValues.SecretValue,
                                    nodeSecretValues.RandomValue)])
    /\ budget' = budget - 1
    /\ UNCHANGED <<MsgChan, chanClosed, outbox, stream, surfaced,
                   EpochRandoms, RandomMutex, TxMutex, RandomNumber,
                   TransactionPool, Ledger, RegistryKeys, writes>>

\* n.P2PNetwork.BroadcastMessage(MsgRandomNumber, msg)
BroadcastRandomNumberSend(n) ==
    /\ pc[n]["api"] = "brn_send"
    /\ MsgChan' = Publish(GossipMessage("MsgRandomNumber",
                                        Marshal(frame[n]["api"].msg), n))
    /\ LET p == BroadcastRandomNumberFlow("sent")
       IN  Goto(n, "api", p, IF p = "idle" THEN IdleFrame ELSE frame[n]["api"])
    /\ UNCHANGED <<chanClosed, outbox, stream, surfaced, EpochRandoms,
                   RandomMutex, TxMutex, RandomNumber, TransactionPool,
                   Ledger, RegistryKeys, budget, writes>>

\* BroadcastTransaction(tx) up to the AddTransaction call.
BroadcastTransactionCall(n) ==
    /\ pc[n]["api"] = "idle"
    /\ budget > 0
    /\ Goto(n, "api", BroadcastTransactionFlow("start"),
            [op |-> "BroadcastTransaction", msg |-> Tx1, args |-> [tx |-> Tx1]])
    /\ budget' = budget - 1
    /\ UNCHANGED <<MsgChan, chanClosed, outbox, stream, surfaced,
                   EpochRandoms, RandomMutex, TxMutex, RandomNumber,
                   TransactionPool, Ledger, RegistryKeys, writes>>

\* n.P2PNetwork.BroadcastMessage(MsgTransaction, tx)
BroadcastTransactionSend(n) ==
    /\ pc[n]["api"] = "bt_send"
    /\ MsgChan' = Publish(GossipMessage("MsgTransaction",
                                        Marshal(frame[n]["api"].msg), n))
    /\ LET p == BroadcastTransactionFlow("sent")
       IN  Goto(n, "api", p, IF p = "idle" THEN IdleFrame ELSE frame[n]["api"])
    /\ UNCHANGED <<chanClosed, outbox, stream, surfaced, EpochRandoms,
                   RandomMutex, TxMutex, RandomNumber, TransactionPool,
                   Ledger, RegistryKeys, budget, writes>>

\* MakeDNSRequest(domainName)
MakeDNSRequest(n) ==
    /\ pc[n]["api"] = "idle"
    /\ budget > 0
    /\ \E d \in Domains :
         MsgChan' = Publish(GossipMessage("DNSRequest", Marshal(BDNSRequest(d)), n))
    /\ budget' = budget - 1
    /\ UNCHANGED <<pc, frame, chanClosed, outbox, stream, surfaced,
                   EpochRandoms, RandomMutex, TxMutex, RandomNumber,
                   TransactionPool, Ledger, RegistryKeys, writes>>

\* GenerateRandomNumber: n.RandomMutex.Lock()
GenerateRandomNumberLock(n) ==
    /\ pc[n]["api"] = "idle"
    /\ budget > 0
    /\ MutexFree(RandomMutex[n])
    /\ RandomMutex' = [RandomMutex EXCEPT ![n] = "api"]
    /\ Goto(n, "api", "grn_write",
            [op |-> "GenerateRandomNumber", msg |-> NoMsg, args |-> NoArgs])
    /\ budget' = budget - 1
    /\ UNCHANGED <<MsgChan, chanClosed, outbox, stream, surfaced,
                   EpochRandoms, TxMutex, RandomNumber,
                   TransactionPool, Ledger, RegistryKeys, writes>>

\* GenerateRandomNumber: rand.Read fills the bytes, they are stored, and the
\* deferred Unlock runs.
GenerateRandomNumberWrite(n) ==
    /\ pc[n]["api"] = "grn_write"
    /\ \E randomBytes \in Vals :
         RandomNumber' = [RandomNumber EXCEPT ![n] = randomBytes]
    /\ RandomMutex' = [RandomMutex EXCEPT ![n] = Free]
    /\ Goto(n, "api", "idle", IdleFrame)
    /\ UNCHANGED <<MsgChan, chanClosed, outbox, stream, surfaced,
                   EpochRandoms, TxMutex, TransactionPool, Ledger,
                   RegistryKeys, budget, writes>>

\* ------------------------------------------------------------ direct streams
\* defer s.Close()
CloseStream(s) == [s EXCEPT !.open = FALSE]

\* A callback that does not test the Type of the envelope.
StreamCallbackAnyType(s) ==
    LET response == Unmarshal(s.bytes, NoMsg)
    IN  IF response.err
        THEN [pc |-> "idle", stream |-> CloseStream(s), args |-> NoArgs]
        ELSE [pc |-> "dm_handle", stream |-> s,
              args |-> [res |-> Unmarshal(response.v.Content, ZeroBDNSResponse).v]]

\* The "/dns-response" callback up to the handler call: the envelope is
\* decoded and its type is tested.  What the callback does next ("idle": it
\* returns), the stream as it leaves it, and the handler's argument.
StreamCallback(s) ==
    LET response == Unmarshal(s.bytes, NoMsg)
    IN  IF response.err
        THEN [pc |-> "idle", stream |-> CloseStream(s), args |-> NoArgs]
        ELSE IF response.v.Type # "DNSResponse"
        THEN [pc |-> "idle", stream |-> CloseStream(s), args |-> NoArgs]
        ELSE [pc |-> "dm_handle", stream |-> s,
              args |-> [res |-> Unmarshal(response.v.Content, ZeroBDNSResponse).v]]

\* The callback runs on the stream up to the handler call.
RunCallback(n, s) ==
    LET c == StreamCallback(s)
    IN  /\ stream' = [stream EXCEPT ![n] = c.stream]
        /\ Goto(n, "dm", c.pc,
                IF c.pc = "idle" THEN IdleFrame
                ELSE [op |-> "dns-response", msg |-> NoMsg, args |-> c.args])

\* A stream opened by DirectMessage reaches its peer: the callback starts.
StreamAccept(n) ==
    /\ pc[n]["dm"] = "idle"
    /\ \E m \in BagToSet(outbox) :
         /\ m.to = n
         /\ outbox' = outbox (-) SetToBag({m})
         /\ RunCallback(n, [bytes |-> m.bytes, from |-> m.from,
                            open |-> TRUE, wrote |-> FALSE])
    /\ UNCHANGED <<MsgChan, chanClosed, surfaced, EpochRandoms,
                   RandomMutex, TxMutex, RandomNumber, TransactionPool,
                   Ledger, RegistryKeys, budget, writes>>

\* A peer outside the model opens a "/dns-response" stream to the node.
RemoteStream(n) ==
    /\ pc[n]["dm"] = "idle"
    /\ budget > 0
    /\ \E b \in RemoteStreams :
         RunCallback(n, [bytes |-> b, from |-> Outsider,
                         open |-> TRUE, wrote |-> FALSE])
    /\ budget' = budget - 1
    /\ UNCHANGED <<MsgChan, chanClosed, outbox, surfaced, EpochRandoms,
                   RandomMutex, TxMutex, RandomNumber, TransactionPool,
                   Ledger, RegistryKeys, writes>>

\* n.DNSResponseHandler(res): the response is printed; the callback returns
\* and the deferred Close runs.
StreamHandle(n) ==
    /\ pc[n]["dm"] = "dm_handle"
    /\ surfaced' = [surfaced EXCEPT
                      ![n] = Append(@, [DomainName |-> frame[n]["dm"].args.res.DomainName,
                                        IP |-> frame[n]["dm"].args.res.IP,
                                        from |-> stream[n].from])]
    /\ stream' = [stream EXCEPT ![n] = CloseStream(@)]
    /\ Goto(n, "dm", "idle", IdleFrame)
    /\ UNCHANGED <<MsgChan, chanClosed, outbox, EpochRandoms, RandomMutex,
                   TxMutex, RandomNumber, TransactionPool, Ledger,
                   RegistryKeys, budget, writes>>

\* ------------------------------------------------------------ specification
LoopStep(n) ==
    \/ HandleGossipRecv(n)
    \/ HandleGossipExit(n)
    \/ RandomNumberHandlerLock(n, "loop")
    \/ RandomNumberHandlerMake(n, "loop")
    \/ RandomNumberHandlerWrite(n, "loop")
    \/ DNSRequestHandlerLock(n)
    \/ DNSRequestHandlerSend(n)
    \/ DNSRequestHandlerUnlock(n)
    \/ AddTransactionLock(n, "loop")
    \/ AddTransactionInsert(n, "loop")
    \/ AddBlock(n)

\* The steps of a local call once it has started.
ApiProgress(n) ==
    \/ RandomNumberHandlerLock(n, "api")
    \/ RandomNumberHandlerMake(n, "api")
    \/ RandomNumberHandlerWrite(n, "api")
    \/ AddTransactionLock(n, "api")
    \/ AddTransactionInsert(n, "api")
    \/ BroadcastRandomNumberSend(n)
    \/ BroadcastTransactionSend(n)
    \/ GenerateRandomNumberWrite(n)

\* A local call starts.
ApiCall(n) ==
    \/ BroadcastRandomNumberCall(n)
    \/ BroadcastTransactionCall(n)
    \/ MakeDNSRequest(n)
    \/ GenerateRandomNumberLock(n)

DirectStep(n) ==
    \/ StreamAccept(n)
    \/ RemoteStream(n)
    \/ StreamHandle(n)

Next ==
    \/ RemotePublish
    \/ \E n \in Nodes : TransportClose(n)
    \/ \E n \in Nodes : LoopStep(n)
    \/ \E n \in Callers : ApiCall(n)
    \/ \E n \in Callers : ApiProgress(n)
    \/ \E n \in Nodes : DirectStep(n)

Spec == Init /\ [][Next]_vars

\* ------------------------------------------------------------ fairness
\* The Go scheduler runs every runnable goroutine: a step of the dispatch
\* loop, or of a local call that has started, that stays possible is taken.
LiveSpec ==
    /\ Spec
    /\ \A n \in Nodes : WF_vars(LoopStep(n))
    /\ \A n \in Callers : WF_vars(ApiProgress(n))

\* ------------------------------------------------------------ properties
Handlers == {"loop", "api"}
ValueOf(a) == SecretValues(a.secretValue, a.randomValue)
SameKey(a, b) == a.epoch = b.epoch /\ a.sender = b.sender
\* The handler calls of node n that have written, as a set.
Contributions(n) == Range(writes[n])
\* The (epoch, sender) pairs the table of node n holds.
EntryKeys(t) ==
    IF t.isNil THEN {}
    ELSE UNION {{<<e, s>> : s \in DOMAIN t.m[e]} : e \in DOMAIN t.m}

\* C1, first half: the step in which RandomNumberHandler(E, P, s, r) returns,
\* on the local path and on the gossip path alike, leaves
\* EpochRandoms[E][P] = {s, r}.
HandlerStoresItsArguments ==
    \A n \in Nodes : \A r \in Handlers :
        (pc[n][r] = "rnh_write" /\ pc'[n][r] # "rnh_write") =>
            LET a == frame[n][r].args
            IN  /\ HasEntry(EpochRandoms'[n], a.epoch, a.sender)
                /\ Lookup(EpochRandoms'[n], a.epoch, a.sender) = ValueOf(a)

\* C1, second half: of several writes for one (E, P) the entry holds the
\* value of the last.
LastWriteWins ==
    \A n \in Nodes : \A i \in DOMAIN writes[n] :
        (\A j \in DOMAIN writes[n] : j > i => ~SameKey(writes[n][i], writes[n][j]))
            => Lookup(EpochRandoms[n], writes[n][i].epoch, writes[n][i].sender)
                 = ValueOf(writes[n][i])

\* C1: after RandomNumberHandler(E, P, s, r) returns, from either path,
\* EpochRandoms[E][P] is {s, r}, and the last write for (E, P) is the one
\* that stays.
C1_HandlerUpsertsLastWrite ==
    [][HandlerStoresItsArguments]_vars /\ []LastWriteWins

\* C1 witness: a node wrote (E, P) twice with different values, the second
\* time from the gossip loop, and holds the second.
C1_Witness ==
    \E n \in Nodes : \E i, j \in DOMAIN writes[n] :
        /\ i < j /\ j = Len(writes[n])
        /\ SameKey(writes[n][i], writes[n][j])
        /\ ValueOf(writes[n][i]) # ValueOf(writes[n][j])
        /\ Lookup(EpochRandoms[n], writes[n][j].epoch, writes[n][j].sender)
             = ValueOf(writes[n][j])
        /\ pc[n]["loop"] = "recv" /\ pc[n]["api"] = "brn_send"

\* The table of node n already holds the entry that call a would write.
AlreadyStored(n, a) ==
    /\ HasEntry(EpochRandoms[n], a.epoch, a.sender)
    /\ Lookup(EpochRandoms[n], a.epoch, a.sender) = ValueOf(a)

\* C2: every step of a RandomNumberHandler call whose tuple (E, P, s, r) the
\* table already holds leaves the whole table of the node as it was: a
\* re-delivery changes, duplicates and removes nothing.
C2_RedeliveryIsIdempotent ==
    [][\A n \in Nodes : \A r \in Handlers :
          (/\ pc[n][r] \in {"rnh_lock", "rnh_make", "rnh_write"}
           /\ pc'[n][r] # pc[n][r]
           /\ AlreadyStored(n, frame[n][r].args))
          => EpochRandoms'[n] = EpochRandoms[n]]_vars

\* C2 witness: the broadcaster's loop is about to write the gossip echo of
\* its own contribution, which its table already holds beside the entry of
\* another sender.
C2_Witness ==
    \E n \in Callers :
        /\ pc[n]["loop"] = "rnh_write"
        /\ frame[n]["loop"].msg.Sender = n
        /\ frame[n]["loop"].args.sender = SelfID(n)
        /\ AlreadyStored(n, frame[n]["loop"].args)
        /\ Cardinality(EntryKeys(EpochRandoms[n])) = 2

\* No (epoch, sender) was contributed with two different values.
Consistent(S) == \A a, b \in S : SameKey(a, b) => a = b

\* The table that holds exactly the contributions of S.
TableOf(S) ==
    [isNil |-> FALSE,
     m |-> [e \in {a.epoch : a \in S} |->
              [p \in {a.sender : a \in {b \in S : b.epoch = e}} |->
                 ValueOf(CHOOSE a \in S : a.epoch = e /\ a.sender = p)]]]

\* No handler call of node n stands between its nil test and its write.
Settled(n) == \A r \in Handlers : pc[n][r] \notin {"rnh_make", "rnh_write"}

\* C3: whatever the order in which a node applied a set of contributions
\* with one value per (epoch, sender), its table is the table of that set,
\* one entry per contribution; so two nodes that applied the same set in
\* different orders hold equal tables.
C3_ArrivalOrderIndependent ==
    /\ \A n \in Nodes :
         (Settled(n) /\ Consistent(Contributions(n)))
            => EpochRandoms[n] = TableOf(Contributions(n))
    /\ \A n1, n2 \in Nodes :
         (/\ Settled(n1) /\ Settled(n2)
          /\ Contributions(n1) = Contributions(n2)
          /\ Consistent(Contributions(n1)))
            => EpochRandoms[n1] = EpochRandoms[n2]

\* The order in which the keys of a write history first appear.
RECURSIVE FirstSeen(_)
FirstSeen(w) ==
    IF w = <<>> THEN <<>>
    ELSE LET init == FirstSeen(SubSeq(w, 1, Len(w) - 1))
             last == w[Len(w)]
         IN  IF \E i \in DOMAIN init : init[i] = last THEN init
             ELSE Append(init, last)

\* C3 witness: two nodes applied the same two contributions of distinct
\* senders in opposite orders.
C3_Witness ==
    \E n1, n2 \in Nodes :
        /\ Settled(n1) /\ Settled(n2)
        /\ Contributions(n1) = Contributions(n2)
        /\ Consistent(Contributions(n1))
        /\ Cardinality({a.sender : a \in Contributions(n1)}) = 2
        /\ FirstSeen(writes[n1]) # FirstSeen(writes[n2])
        /\ EpochRandoms[n1] = EpochRandoms[n2]

\* The RandomNumber envelopes node n published that a channel or a loop
\* still holds.
VisibleBroadcasts(n) ==
    {e \in UNION {Range(MsgChan[k]) \cup {frame[k]["loop"].msg} : k \in Nodes} :
        e.Type = "MsgRandomNumber" /\ e.Sender = n}

\* The arguments of the local apply of the message a broadcast carries.
ArgsOf(n, msg) ==
    RNHArgs(msg.Epoch, SelfID(n), msg.SecretValue, msg.RandomValue)

\* C4 as claimed: in the state of the outbound send the broadcaster's entry
\* holds the contributed values.
C4_EntryHoldsContributionAtSend ==
    \A n \in Callers :
        pc[n]["api"] = "brn_send" => AlreadyStored(n, ArgsOf(n, frame[n]["api"].msg))

\* C4 as amended: in the state of the outbound send the local apply of the
\* contributed values has been done and the broadcaster's entry of (E, self)
\* is there, holding the contributed values unless a handler call for the
\* same (E, self) with other values wrote after it; and while a broadcast
\* envelope of the node can be seen anywhere, that entry is there.
C4_EntryPresentAtSend ==
    /\ \A n \in Callers :
         pc[n]["api"] = "brn_send" =>
            LET a == ArgsOf(n, frame[n]["api"].msg)
            IN  /\ HasEntry(EpochRandoms[n], a.epoch, a.sender)
                /\ \E i \in DOMAIN writes[n] :
                     /\ writes[n][i] = a
                     /\ \/ AlreadyStored(n, a)
                        \/ \E j \in DOMAIN writes[n] :
                             /\ j > i /\ SameKey(writes[n][j], a)
                             /\ writes[n][j] # a
    /\ \A n \in Nodes : \A e \in VisibleBroadcasts(n) :
         HasEntry(EpochRandoms[n], e.Content.v.Epoch, SelfID(n))

\* C4 witness: a broadcast stands at its send with the contributed values
\* in the node's own entry.
C4_Witness ==
    \E n \in Callers :
        /\ pc[n]["api"] = "brn_send"
        /\ AlreadyStored(n, ArgsOf(n, frame[n]["api"].msg))
        /\ VisibleBroadcasts(n) = {}

\* The values node a wrote for its own entry of epoch e.
OwnValues(a, e) ==
    {ValueOf(w) : w \in {x \in Contributions(a) :
                           x.epoch = e /\ x.sender = SelfID(a)}}

\* C5 as claimed: once a peer b has dispatched a contribution of a for
\* epoch e, the entries of (e, a) at b and at a are equal.
C5_PeerEntryEqualsBroadcasterEntry ==
    \A a \in Nodes : \A b \in Nodes \ {a} : \A e \in Epochs :
        HasEntry(EpochRandoms[b], e, SelfID(a)) =>
            /\ HasEntry(EpochRandoms[a], e, SelfID(a))
            /\ Lookup(EpochRandoms[b], e, SelfID(a))
                 = Lookup(EpochRandoms[a], e, SelfID(a))

\* C5 as amended: once a peer b has dispatched a contribution of a for
\* epoch e, a holds its own entry of (e, a) whether or not its gossip echo
\* has come, b's entry is one of the values a wrote itself, and the two
\* entries are equal when a contributed one value for e.
C5_PeerAgreesOnSingleContribution ==
    \A a \in Nodes : \A b \in Nodes \ {a} : \A e \in Epochs :
        HasEntry(EpochRandoms[b], e, SelfID(a)) =>
            /\ HasEntry(EpochRandoms[a], e, SelfID(a))
            /\ Lookup(EpochRandoms[b], e, SelfID(a)) \in OwnValues(a, e)
            /\ Cardinality(OwnValues(a, e)) = 1 =>
                 Lookup(EpochRandoms[b], e, SelfID(a))
                   = Lookup(EpochRandoms[a], e, SelfID(a))

\* C5 witness: the peer holds the broadcaster's contribution, equal to the
\* broadcaster's own entry, while the broadcaster's echo is still in its
\* channel.
C5_Witness ==
    \E a \in Callers : \E b \in Nodes \ {a} : \E e \in Epochs :
        /\ HasEntry(EpochRandoms[b], e, SelfID(a))
        /\ Lookup(EpochRandoms[b], e, SelfID(a)) = Lookup(EpochRandoms[a], e, SelfID(a))
        /\ Lookup(EpochRandoms[a], e, SelfID(a)).SecretValue
             # Lookup(EpochRandoms[a], e, SelfID(a)).RandomValue
        /\ Len(writes[a]) = 1
        /\ MsgChan[a] # <<>> /\ Head(MsgChan[a]).Sender = a
        /\ pc[a]["loop"] = "recv"

\* ---------------------------------------------------------------------- C6
\* The (epoch, sender) pairs the handler calls of node n have written.
WrittenKeys(n) == {<<a.epoch, a.sender>> : a \in Contributions(n)}

\* At every moment, a handler of another task in flight or not, the table of
\* a node holds exactly the pairs written so far, and a pair that got one
\* value holds that value.
NoContributionLost ==
    \A n \in Nodes :
        /\ EntryKeys(EpochRandoms[n]) = WrittenKeys(n)
        /\ \A a \in Contributions(n) :
             (\A b \in Contributions(n) : SameKey(a, b) => ValueOf(b) = ValueOf(a))
                => Lookup(EpochRandoms[n], a.epoch, a.sender) = ValueOf(a)

\* No step, the creation of an inner map included, takes an entry out of a
\* table or changes an entry of a pair other than the one it writes.
StepKeepsOtherEntries ==
    \A n \in Nodes : \A k \in EntryKeys(EpochRandoms[n]) :
        /\ k \in EntryKeys(EpochRandoms'[n])
        /\ Lookup(EpochRandoms'[n], k[1], k[2]) # Lookup(EpochRandoms[n], k[1], k[2])
             => \E r \in Handlers :
                  /\ pc[n][r] = "rnh_write"
                  /\ pc'[n][r] # "rnh_write"
                  /\ frame[n][r].args.epoch = k[1]
                  /\ frame[n][r].args.sender = k[2]

\* C6: RandomNumberHandler calls of the gossip loop and of local callers that
\* overlap lose nothing: under every interleaving the table holds exactly the
\* written (epoch, sender) pairs with their contributed values, and no step,
\* the creation of the inner map of an epoch by one task included, discards
\* or alters an entry another task wrote.
C6_ConcurrentHandlersLoseNothing ==
    /\ []NoContributionLost
    /\ [][StepKeepsOtherEntries]_vars

\* Two handler calls of node A for the same epoch and different senders
\* overlap: the gossip loop holds the lock, has made the inner map of the
\* epoch and stands before its write, while the local caller waits for the
\* lock with a contribution of its own.
C6_Witness ==
    /\ pc["A"]["loop"] = "rnh_write"
    /\ pc["A"]["api"] = "rnh_lock"
    /\ RandomMutex["A"] = "loop"
    /\ frame["A"]["loop"].args.epoch = frame["A"]["api"].args.epoch
    /\ frame["A"]["loop"].args.sender = HexEncodeToString(PublicKey[Outsider])
    /\ frame["A"]["api"].args.sender = SelfID("A")
    /\ ~InnerIsNil(EpochRandoms["A"], frame["A"]["loop"].args.epoch)
    /\ EntryKeys(EpochRandoms["A"]) = {}

\* ---------------------------------------------------------------------- C7
\* The types whose handlers are the ingestion and the randomness handlers.
IngestTypes == {"MsgTransaction", "MsgBlock", "MsgRandomNumber"}

\* The loop of node n stands inside AddTransaction, AddBlock or
\* RandomNumberHandler.
InIngestHandler(n) ==
    pc[n]["loop"] \in {"at_lock", "at_insert", "ab_add",
                       "rnh_lock", "rnh_make", "rnh_write"}

\* The loop is in no handler on behalf of an envelope that failed to decode.
NoHandlerForUndecodable ==
    \A n \in Nodes :
        InIngestHandler(n) => ~Unmarshal(frame[n]["loop"].msg.Content, NoArgs).err

\* The step that takes an undecodable envelope off the channel leaves the
\* loop at its receive and the pool, the ledger and the table as they were.
UndecodableIsPassedOver ==
    \A n \in Nodes :
        ( /\ pc[n]["loop"] = "recv"
          /\ MsgChan[n] # <<>>
          /\ MsgChan'[n] = Tail(MsgChan[n])
          /\ Head(MsgChan[n]).Type \in IngestTypes
          /\ Unmarshal(Head(MsgChan[n]).Content, NoArgs).err )
        => /\ pc'[n]["loop"] = "recv"
           /\ TransactionPool'[n] = TransactionPool[n]
           /\ Ledger'[n] = Ledger[n]
           /\ EpochRandoms'[n] = EpochRandoms[n]

\* C7: a gossip envelope of Type Transaction, Block or RandomNumber whose
\* Content fails to decode is dropped: the loop enters none of AddTransaction,
\* AddBlock and RandomNumberHandler for it, and the pool, the ledger and
\* EpochRandoms are unchanged once it is consumed.
C7_UndecodableEnvelopeDropped ==
    /\ []NoHandlerForUndecodable
    /\ [][UndecodableIsPassedOver]_vars

\* ---------------------------------------------------------------------- C8
\* An envelope whose Content fails to decode.
Undecodable(msg) == Unmarshal(msg.Content, NoArgs).err

\* Envelopes that decode, one for each Type that has a handler.
ValidEnvelopes ==
    {GossipMessage("MsgTransaction", Marshal(Tx2), Outsider),
     GossipMessage("MsgBlock", Marshal(Block(1)), Outsider),
     GossipMessage("DNSRequest", Marshal(BDNSRequest("example.bdns")), Outsider),
     GossipMessage("MsgRandomNumber",
                   Marshal(RandomNumberMsg(1, 1, 2, PublicKey[Outsider])),
                   Outsider)}

\* A valid envelope e waits on the channel of node n behind an envelope that
\* does not decode.
QueuedBehindUndecodable(n, e) ==
    \E i, j \in DOMAIN MsgChan[n] :
        /\ i < j
        /\ Undecodable(MsgChan[n][i])
        /\ MsgChan[n][j] = e

\* The loop of node n has passed e to the handler of its Type.
Dispatched(n, e) ==
    /\ frame[n]["loop"].msg = e
    /\ pc[n]["loop"] = Dispatch(e).pc
    /\ frame[n]["loop"].args = Dispatch(e).args

\* The loop leaves its range only over a channel that is closed and drained,
\* never on account of an envelope.
LoopStaysRunning ==
    \A n \in Nodes :
        (pc[n]["loop"] # "exited" /\ pc'[n]["loop"] = "exited")
            => (chanClosed[n] /\ MsgChan[n] = <<>>)

\* C8: a decode failure never stops the dispatch loop: a valid envelope that
\* follows an undecodable envelope of any Type on the inbound channel is
\* eventually dispatched to the handler of its Type.
C8_LoopSurvivesDecodeFailure ==
    /\ [][LoopStaysRunning]_vars
    /\ \A n \in Nodes : \A e \in ValidEnvelopes :
         QueuedBehindUndecodable(n, e) ~> Dispatched(n, e)

\* The loop has consumed an undecodable envelope and is in AddTransaction for
\* the valid Transaction envelope that followed it.
C8_Witness ==
    \E n \in Nodes :
        /\ Dispatched(n, GossipMessage("MsgTransaction", Marshal(Tx2), Outsider))
        /\ pc[n]["loop"] = "at_lock"
        /\ MsgChan[n] = <<>>
        /\ budget = 0
        /\ Len(TransactionPool[n]) = 1
        /\ TransactionPool[n][1] = ZeroTransaction

\* ---------------------------------------------------------------------- C9
\* The bytes of stream s decode as an envelope of a Type other than
\* DNSResponse.
WrongType(s) ==
    LET response == Unmarshal(s.bytes, NoMsg)
    IN  ~response.err /\ response.v.Type # "DNSResponse"

\* DNSResponseHandler runs only for an envelope of Type DNSResponse; a
\* callback that has returned has closed its stream, on whichever path it
\* left; no callback writes on its stream.
CallbackClosesStream ==
    \A n \in Nodes :
        /\ pc[n]["dm"] = "dm_handle" => ~WrongType(stream[n])
        /\ pc[n]["dm"] = "idle" => ~stream[n].open
        /\ ~stream[n].wrote

\* No message is added to those in flight.
NothingSent == \A m \in BagToSet(outbox') : CopiesIn(m, outbox') <= CopiesIn(m, outbox)

\* A stream of the wrong Type leaves the callback returned, the stream
\* closed and unwritten and nothing surfaced; the step that takes it sends
\* nothing and changes nothing else of the node.
WrongTypeRejected ==
    \A n \in Nodes :
        /\ WrongType(stream'[n]) =>
             /\ pc'[n]["dm"] = "idle"
             /\ ~stream'[n].open
             /\ ~stream'[n].wrote
             /\ surfaced'[n] = surfaced[n]
        /\ (WrongType(stream'[n]) /\ stream'[n] # stream[n]) =>
             /\ NothingSent
             /\ MsgChan' = MsgChan
             /\ EpochRandoms' = EpochRandoms
             /\ TransactionPool' = TransactionPool
             /\ Ledger' = Ledger
             /\ RandomNumber' = RandomNumber
             /\ RandomMutex' = RandomMutex
             /\ TxMutex' = TxMutex
             /\ pc'[n] = pc[n]
             /\ frame'[n] = frame[n]

\* C9: on "/dns-response" an envelope whose Type is not DNSResponse is
\* rejected: DNSResponseHandler is not invoked, nothing is written or sent,
\* no state of the node changes and the stream is closed when the callback
\* returns; the stream is closed on every other exit of the callback too.
C9_WrongTypeRejectedStreamClosed ==
    /\ []CallbackClosesStream
    /\ [][WrongTypeRejected]_vars

\* A node has taken a stream carrying a decodable envelope of another Type:
\* the callback has returned, the stream is closed and nothing has surfaced.
C9_Witness ==
    \E n \in Nodes :
        /\ WrongType(stream[n])
        /\ ~stream[n].open
        /\ stream[n].from = Outsider
        /\ pc[n]["dm"] = "idle"
        /\ surfaced[n] = <<>>
        /\ budget < MaxEvents

\* ---------------------------------------------------------------------- C10
\* The loop of node n is in DNSRequestHandler for a domain name its index
\* holds no record of.
HandlingUnknownDomain(n) ==
    /\ pc[n]["loop"] \in {"dns_lock", "dns_send", "dns_unlock"}
    /\ GetIP(n, frame[n]["loop"].args.req.DomainName) = NilTx

\* No step of the handler for an unknown domain sends a direct message or
\* broadcasts, and the handler never stands at its DirectMessage call.
UnknownDomainStepSilent ==
    \A n \in Nodes :
        (HandlingUnknownDomain(n) /\ pc'[n]["loop"] # pc[n]["loop"])
            => /\ outbox' = outbox
               /\ MsgChan' = MsgChan
               /\ pc'[n]["loop"] \in {"dns_unlock", "recv"}

\* Every response of a node, in flight or surfaced at a requester, carries a
\* domain name the responding node's index holds: none exists for a name that
\* is absent from every index.
ResponsesOnlyForKnownDomains ==
    /\ \A n \in Nodes : ~(HandlingUnknownDomain(n) /\ pc[n]["loop"] = "dns_send")
    /\ \A m \in BagToSet(outbox) :
         m.from \in Nodes => m.bytes.v.Content.v.DomainName \in DOMAIN IndexManager[m.from]
    /\ \A n \in Nodes : \A i \in DOMAIN surfaced[n] :
         surfaced[n][i].from \in Nodes
            => surfaced[n][i].DomainName \in DOMAIN IndexManager[surfaced[n][i].from]

\* C10: a DNSRequest for a domain name without a record in the node's index
\* is answered with silence, no direct message and no broadcast; so a query
\* for a name that no index holds leads to no DNSResponseHandler call at the
\* requester on behalf of any node.
C10_SilenceOnUnknownDomains ==
    /\ []ResponsesOnlyForKnownDomains
    /\ [][UnknownDomainStepSilent]_vars

\* Both nodes have handled the query of A for a name no index holds, the
\* second stands at the end of its handler: nothing is in flight and nothing
\* has surfaced at A.
C10_Witness ==
    /\ pc["B"]["loop"] = "dns_unlock"
    /\ frame["B"]["loop"].args.req.DomainName = "absent.bdns"
    /\ frame["B"]["loop"].args.reqSender = "A"
    /\ HandlingUnknownDomain("B")
    /\ pc["A"]["loop"] = "recv"
    /\ MsgChan["A"] = <<>>
    /\ outbox = EmptyBag
    /\ surfaced["A"] = <<>>
    /\ pc["A"]["dm"] = "idle"

\* ---------------------------------------------------------------------- C11
\* The loop of node n is in DNSRequestHandler for a domain name its index
\* holds a record of.
HandlingKnownDomain(n) ==
    /\ pc[n]["loop"] \in {"dns_lock", "dns_send", "dns_unlock"}
    /\ frame[n]["loop"].args.req.DomainName \in DOMAIN IndexManager[n]

\* The stream the responder n owes for the envelope its loop holds: a
\* DNSResponse for the envelope's Sender with the six fields of the stored
\* record.
ResponseOwed(n) ==
    LET tx == IndexManager[n][frame[n]["loop"].args.req.DomainName]
        record == [Timestamp |-> tx.Timestamp, DomainName |-> tx.DomainName,
                   IP |-> tx.IP, TTL |-> tx.TTL, OwnerKey |-> tx.OwnerKey,
                   Signature |-> tx.Signature]
    IN  [to |-> frame[n]["loop"].msg.Sender, from |-> n,
         bytes |-> [ok |-> TRUE,
                    v |-> [Type |-> "DNSResponse",
                           Content |-> [ok |-> TRUE, v |-> record],
                           Sender |-> n]]]

\* The handler for a known domain goes lock, send, unlock; its send step puts
\* the one stream owed in flight and its other steps send nothing.
KnownDomainAnsweredOnce ==
    \A n \in Nodes :
        (HandlingKnownDomain(n) /\ pc'[n]["loop"] # pc[n]["loop"]) =>
            /\ MsgChan' = MsgChan
            /\ CASE pc[n]["loop"] = "dns_lock" ->
                      pc'[n]["loop"] = "dns_send" /\ outbox' = outbox
                 [] pc[n]["loop"] = "dns_send" ->
                      /\ pc'[n]["loop"] = "dns_unlock"
                      /\ outbox' = outbox (+) SetToBag({ResponseOwed(n)})
                 [] OTHER ->
                      pc'[n]["loop"] = "recv" /\ outbox' = outbox

\* C11: a dispatched DNSRequest for a domain in the responder's index is
\* answered with exactly one direct message of Type DNSResponse, addressed to
\* the Sender of the inbound envelope and to no other peer, whose record
\* copies Timestamp, DomainName, IP, TTL, OwnerKey and Signature of the
\* stored record.
C11_KnownDomainAnsweredToSender == [][KnownDomainAnsweredOnce]_vars

\* B has answered the query of A for "example.bdns": the one stream in flight
\* is the response owed to A, and B stands at the end of its handler.
C11_Witness ==
    /\ pc["B"]["loop"] = "dns_unlock"
    /\ HandlingKnownDomain("B")
    /\ frame["B"]["loop"].msg.Sender = "A"
    /\ outbox = SetToBag({ResponseOwed("B")})
    /\ ResponseOwed("B").bytes.v.Content.v.IP = "10.0.0.1"
    /\ ResponseOwed("B").to = "A"

\* ---------------------------------------------------------------------- C12
\* How many entries of sequence s equal x.
Count(x, s) == Cardinality({i \in DOMAIN s : s[i] = x})

\* The step in which the loop's AddTransaction for a valid Transaction
\* envelope returns adds one entry for it to the pool and to the ledger; for
\* the node's own gossip, applied locally before, the entry is still the
\* only one.
ValidTransactionAppliedOnce ==
    \A n \in Nodes :
        ( /\ pc[n]["loop"] = "at_insert"
          /\ pc'[n]["loop"] # "at_insert"
          /\ ~Undecodable(frame[n]["loop"].msg) )
        => LET tx == frame[n]["loop"].msg.Content.v
           IN  /\ TransactionPool'[n] = Append(TransactionPool[n], tx)
               /\ Ledger'[n].txs = Append(Ledger[n].txs, tx)
               /\ frame[n]["loop"].msg.Sender = n
                    => /\ Count(tx, TransactionPool'[n]) = 1
                       /\ Count(tx, Ledger'[n].txs) = 1

\* C12: after the dispatch of a valid Transaction envelope the pool holds
\* exactly one entry for it and the ledger's AddTransaction has been invoked
\* exactly once for it, on every node, the originator that applied it locally
\* in BroadcastTransaction and then receives its own gossip included.
C12_TransactionAppliedExactlyOnce == [][ValidTransactionAppliedOnce]_vars

\* ---------------------------------------------------------------------- C13
\* The transactions whose gossip envelope of node n is on a channel or in a
\* loop's hands.
VisibleTransactions(n) ==
    {e.Content.v : e \in {m \in UNION {Range(MsgChan[k]) \cup {frame[k]["loop"].msg} : k \in Nodes} :
                             m.Type = "MsgTransaction" /\ m.Sender = n}}

\* C13: BroadcastTransaction(tx) applies tx locally before it sends: at its
\* send AddTransaction has returned and the originator's pool contains tx,
\* and in no state is a Transaction message of a node out while its pool
\* lacks the transaction.
C13_TransactionPooledBeforeSend ==
    /\ \A n \in Callers :
         pc[n]["api"] = "bt_send" =>
            /\ Count(frame[n]["api"].args.tx, TransactionPool[n]) >= 1
            /\ TxMutex[n] # "api"
    /\ \A n \in Nodes : \A tx \in VisibleTransactions(n) :
         Count(tx, TransactionPool[n]) >= 1

\* A BroadcastTransaction stands at its send, the transaction in the pool
\* and no message of it out yet.
C13_Witness ==
    \E n \in Callers :
        /\ pc[n]["api"] = "bt_send"
        /\ TransactionPool[n] = <<frame[n]["api"].args.tx>>
        /\ VisibleTransactions(n) = {}

\* ---------------------------------------------------------------------- C14
\* The inbound channel of a node changes only by an envelope joining its
\* tail or by the loop taking its head; the loop takes the head only with no
\* gossip handler of its own running (the handler of the envelope before has
\* returned and released its lock), and the handler it starts is the one of
\* the envelope taken.
GossipHandlersSerialFIFO ==
    \A n \in Nodes :
        MsgChan'[n] # MsgChan[n] =>
            \/ /\ Len(MsgChan'[n]) = Len(MsgChan[n]) + 1
               /\ SubSeq(MsgChan'[n], 1, Len(MsgChan[n])) = MsgChan[n]
               /\ pc'[n]["loop"] = pc[n]["loop"]
            \/ /\ MsgChan[n] # <<>>
               /\ MsgChan'[n] = Tail(MsgChan[n])
               /\ pc[n]["loop"] = "recv"
               /\ frame[n]["loop"] = IdleFrame
               /\ RandomMutex[n] # "loop"
               /\ TxMutex[n] # "loop"
               /\ pc'[n]["loop"] # "recv"
                    => /\ frame'[n]["loop"].msg = Head(MsgChan[n])
                       /\ pc'[n]["loop"] = Dispatch(Head(MsgChan[n])).pc

\* A gossip handler runs on behalf of exactly the one envelope the loop
\* holds; a lock held by the loop is held inside a handler.
OneGossipHandlerAtATime ==
    \A n \in Nodes :
        /\ pc[n]["loop"] \in {"recv", "exited"} <=> frame[n]["loop"] = IdleFrame
        /\ (RandomMutex[n] = "loop" \/ TxMutex[n] = "loop")
              => pc[n]["loop"] \notin {"recv", "exited"}

\* C14: gossip handlers run one at a time in the order of the inbound
\* channel: the handler of an envelope has returned before the handler of a
\* later envelope starts; only direct-stream callbacks and local broadcast
\* calls overlap with a gossip handler.
C14_GossipHandlersSerialInOrder ==
    /\ []OneGossipHandlerAtATime
    /\ [][GossipHandlersSerialFIFO]_vars

\* Node B got a Transaction envelope and then a Block envelope: the first
\* handler has returned, its transaction pooled, and the loop stands in the
\* handler of the second.
C14_Witness ==
    /\ pc["B"]["loop"] = "ab_add"
    /\ frame["B"]["loop"].msg = GossipMessage("MsgBlock", Marshal(Block(1)), Outsider)
    /\ TransactionPool["B"] = <<Tx2>>
    /\ Ledger["B"].blocks = <<>>
    /\ MsgChan["B"] = <<>>

\* ---------------------------------------------------------------------- C15
\* The loop exits only over a closed channel, and an exited loop stays so.
ExitOnlyWhenClosed ==
    \A n \in Nodes :
        /\ pc'[n]["loop"] = "exited" => chanClosed'[n]
        /\ pc[n]["loop"] = "exited" => pc'[n]["loop"] = "exited"

\* Once the channel of a node is closed the loop takes no envelope from it.
NothingDispatchedAfterClose ==
    \A n \in Nodes : chanClosed[n] => MsgChan'[n] = MsgChan[n]

\* Once the channel of a node is closed no envelope joins it; the loop may
\* still take the envelopes it holds, from the head, and exits only when
\* none is left.
OnlyBufferedDispatchedAfterClose ==
    \A n \in Nodes :
        /\ chanClosed[n] =>
              \/ MsgChan'[n] = MsgChan[n]
              \/ MsgChan[n] # <<>> /\ MsgChan'[n] = Tail(MsgChan[n])
        /\ (pc[n]["loop"] # "exited" /\ pc'[n]["loop"] = "exited") => MsgChan[n] = <<>>

\* C15 as claimed: the loop terminates if and only if the channel is closed:
\* no envelope makes it exit while the channel is open, and once the channel
\* is closed it exits without dispatching any further envelope.
C15_LoopExitsIffClosedNoFurtherDispatch ==
    /\ [][ExitOnlyWhenClosed]_vars
    /\ [][NothingDispatchedAfterClose]_vars
    /\ \A n \in Nodes : chanClosed[n] ~> (pc[n]["loop"] = "exited")

\* C15 as amended: the loop terminates if and only if the channel is closed:
\* no envelope makes it exit while the channel is open, and once the channel
\* is closed the loop dispatches the envelopes the channel still holds, in
\* order, and then exits; no envelope joins a closed channel.
C15_LoopExitsIffClosedAfterDrain ==
    /\ [][ExitOnlyWhenClosed]_vars
    /\ [][OnlyBufferedDispatchedAfterClose]_vars
    /\ \A n \in Nodes : chanClosed[n] ~> (pc[n]["loop"] = "exited")

\* A node got a Transaction envelope, its channel was closed, and its loop
\* has exited with the channel drained and the transaction pooled.
C15_Witness ==
    \E n \in Nodes :
        /\ pc[n]["loop"] = "exited"
        /\ chanClosed[n]
        /\ MsgChan[n] = <<>>
        /\ TransactionPool[n] = <<Tx2>>
        /\ budget = 0

\* ---------------------------------------------------------------------- C16
\* C16: in the DNS protocol a payload that fails to decode is dropped: the
\* loop is never in DNSRequestHandler for a DNSRequest envelope whose Content
\* does not decode, the "/dns-response" callback is never in
\* DNSResponseHandler for an envelope whose Content does not decode, and no
\* response is surfaced for one.
C16_UndecodableDNSPayloadDropped ==
    \A n \in Nodes :
        /\ pc[n]["loop"] \in {"dns_lock", "dns_send", "dns_unlock"}
              => ~Undecodable(frame[n]["loop"].msg)
        /\ pc[n]["dm"] = "dm_handle"
              => ~Undecodable(Unmarshal(stream[n].bytes, NoMsg).v)
        /\ \A i \in DOMAIN surfaced[n] : surfaced[n][i].DomainName # ""

\* ---------------------------------------------------------------------- C17
\* Where a task stands between n.RandomMutex.Lock() and the deferred Unlock.
RandomSection == {"rnh_make", "rnh_write", "grn_write"}

\* A task stands inside RandomNumberHandler or GenerateRandomNumber past the
\* Lock exactly when it is the one holder of RandomMutex: one task at a time
\* is inside, and a task that has returned holds the lock no more.
RandomMutexHeldInside ==
    \A n \in Nodes : \A r \in Handlers :
        pc[n][r] \in RandomSection <=> RandomMutex[n] = r

\* A step that changes the table of a node is a step of RandomNumberHandler
\* by the task that holds RandomMutex.
TableChangedUnderLock ==
    \A n \in Nodes :
        EpochRandoms'[n] # EpochRandoms[n] =>
            \E r \in Handlers :
                /\ \/ RandomMutex[n] = r
                   \/ RandomMutex[n] = Free /\ RandomMutex'[n] = r
                /\ pc[n][r] \in {"rnh_lock", "rnh_make", "rnh_write"}
                /\ pc'[n][r] # pc[n][r]

\* C17: every task that reads or writes EpochRandoms holds RandomMutex, at
\* most one task holds RandomMutex at a time, and when RandomNumberHandler or
\* GenerateRandomNumber returns the lock it took is released.
C17_RandomMutexDiscipline ==
    /\ []RandomMutexHeldInside
    /\ [][TableChangedUnderLock]_vars

\* GenerateRandomNumber holds RandomMutex while the gossip loop waits at the
\* Lock of RandomNumberHandler.
C17_Witness ==
    /\ pc["A"]["api"] = "grn_write"
    /\ RandomMutex["A"] = "api"
    /\ pc["A"]["loop"] = "rnh_lock"

\* ---------------------------------------------------------------------- C18
\* C18: no lock guards two unrelated resources: while DNSRequestHandler holds
\* the lock of its index lookup a pool insertion that stands at its Lock can
\* take the pool's lock, and while GenerateRandomNumber holds the lock of
\* RandomNumber a RandomNumberHandler that stands at its Lock can take the
\* table's lock.
C18_NoLockGuardsTwoResources ==
    \A n \in Nodes :
        /\ pc[n]["loop"] \in {"dns_send", "dns_unlock"}
              => \A r \in Handlers : pc[n][r] = "at_lock" => MutexFree(TxMutex[n])
        /\ (\E g \in Handlers : pc[n][g] = "grn_write")
              => \A r \in Handlers : pc[n][r] = "rnh_lock" => RandomLockFree(n)

\* ---------------------------------------------------------------------- C19
\* Where a task stands at a call of BroadcastMessage or DirectMessage.
SendPoints == {"dns_send", "brn_send", "bt_send"}

\* C19: no task stands at a transport send while it holds a lock of the
\* node; DNSRequestHandler has released the lock of its index lookup before
\* it sends the response.
C19_NoSendUnderLock ==
    \A n \in Nodes : \A r \in Handlers :
        pc[n][r] \in SendPoints => (TxMutex[n] # r /\ RandomMutex[n] # r)

\* ---------------------------------------------------------------------- C20
\* The pairs CommitmentPhase over the registry of node n can return for the
\* node's own key: none when the key is not in the registry.
OwnCommitments(n) ==
    {secretValues[SelfID(n)] :
        secretValues \in {sv \in CommitmentPhase(RegistryKeys[n]) :
                             SelfID(n) \in DOMAIN sv}}

\* C20: the pair BroadcastRandomNumber records in EpochRandoms[E][selfID]
\* and broadcasts is the entry CommitmentPhase over the registry key set
\* returned for the caller's own public key, and the one it broadcasts is the
\* one it records; it never records or broadcasts a pair CommitmentPhase did
\* not return for it, a registry without its key included.
C20_OwnCommitmentRecordedAndBroadcast ==
    \A n \in Callers :
        (pc[n]["api"] \in {"rnh_lock", "rnh_make", "rnh_write", "brn_send"}
           /\ frame[n]["api"].op = "BroadcastRandomNumber")
        => /\ ValueOf(frame[n]["api"].args) \in OwnCommitments(n)
           /\ SecretValues(frame[n]["api"].msg.SecretValue,
                           frame[n]["api"].msg.RandomValue) \in OwnCommitments(n)
           /\ frame[n]["api"].msg.Sender = PublicKey[n]

=============================================================================
